---- MODULE Spec2Model ----
(***************************************************************************)
(* Model of src/src/available_slot_finder.py: the busy-range parser        *)
(* (validate_date_range_format), the calendar loader                       *)
(* (get_calendar_file_names, get_calendar_date_ranges) and the slot        *)
(* search (find_available_slot).                                           *)
(*                                                                         *)
(* A datetime is an integer number of clock ticks since the first day at   *)
(* 00:00:00.  A second has TicksPerSecond ticks, so a datetime read from   *)
(* the clock may carry a sub-second part (Python's microseconds) while a   *)
(* parsed one, or one formatted with '%Y-%m-%d %H:%M:%S', does not.        *)
(*                                                                         *)
(* A text record is a sequence of tokens: a date text (YYYY-MM-DD), a      *)
(* time text (HH:MM:SS, written one space after what precedes it), the     *)
(* separator " - ", or other text.  strptime is taken to accept exactly    *)
(* the two formats; its leniency about padding and spaces is left out.     *)
(*                                                                         *)
(* Spec is find_available_slot called at one instant, SpecRun is main      *)
(* from line 156 on (the directory exists) and direct calls of the search  *)
(* while the clock runs, SpecParse is the parser on one record.            *)
(***************************************************************************)
EXTENDS Integers, Sequences, FiniteSets, TLC

VARIABLES
    clock,                  \* the system clock (datetime.now()), in ticks
    called,                 \* the function the caller invoked
    pc,                     \* position of the program within it
    record,                 \* argument of validate_date_range_format
    parsed,                 \* its outcome
    listing,                \* os.listdir(calendars_path)
    contents,               \* the lines of each listed file
    calendar_files,         \* result of get_calendar_file_names
    calendar_date_ranges,   \* the busy map, in insertion order
    duration_in_minutes,
    minimum_people,
    load_date,              \* current_date of get_calendar_date_ranges
    current_date,           \* current_date of find_available_slot
    comb,                   \* combinations not yet taken by the for loop
    calendar_combination,   \* the combination the loop body works on
    date_ranges,            \* sorted pool of the combination taken last
    available_time_slot,
    result,                 \* the datetime returned
    line,                   \* source line of the return taken
    error                   \* the exception that ended the run

vars == <<clock, called, pc, record, parsed, listing, contents,
          calendar_files, calendar_date_ranges, duration_in_minutes,
          minimum_people, load_date, current_date, comb, calendar_combination,
          date_ranges, available_time_slot, result, line, error>>

----------------------------------------------------------------------------
(* Bounds of the model *)

TicksPerSecond == 2     \* clock resolution (the code's is 1000000)
MaxSlot == 4            \* search inputs: range bounds are slots 0..MaxSlot
SlotSeconds == 90       \* seconds between two slots
MaxPool == 3            \* search inputs: ranges in the whole busy map
MaxDuration == 3        \* search inputs: duration_in_minutes in 1..MaxDuration
MaxDay == 1             \* parser inputs: dates are days 0..MaxDay
MaxTokens == 5          \* parser inputs: tokens in a record
RunMaxSlot == 2         \* whole runs: range bounds are slots 0..RunMaxSlot
RunMaxLines == 2        \* whole runs: lines in all calendar files together
RunMaxDuration == 1     \* whole runs: duration_in_minutes in 1..RunMaxDuration

(* Program constants *)

SecondsPerMinute == 60
SecondsPerDay == 86400
EndOfDaySeconds == 86399      \* 23:59:59

None == "None"                \* no exception
NoDate == 0 - 1               \* no datetime (None, or a local not yet bound)

Seconds(n) == n * TicksPerSecond
Minutes(n) == Seconds(n * SecondsPerMinute)

\* datetime.now().strftime('%Y-%m-%d %H:%M:%S') parsed back: the sub-second
\* part is dropped
TruncateToSecond(t) == t - (t % TicksPerSecond)

----------------------------------------------------------------------------
(* validate_date_range_format *)

DateTok(d) == [kind |-> "date", val |-> d]
TimeTok(s) == [kind |-> "time", val |-> s]
SepTok == [kind |-> "sep", val |-> 0]
JunkTok == [kind |-> "junk", val |-> 0]

\* dates.split(" - "): the parts between separators (always at least one)
RECURSIVE SplitFrom(_, _, _)
SplitFrom(toks, n, cur) ==
    IF n > Len(toks) THEN <<cur>>
    ELSE IF toks[n].kind = "sep" THEN <<cur>> \o SplitFrom(toks, n + 1, <<>>)
    ELSE SplitFrom(toks, n + 1, Append(cur, toks[n]))

Split(toks) == SplitFrom(toks, 1, <<>>)

\* datetime.strptime(part, '%Y-%m-%d %H:%M:%S') succeeds
IsDateTime(part) ==
    Len(part) = 2 /\ part[1].kind = "date" /\ part[2].kind = "time"

\* datetime.strptime(part, '%Y-%m-%d') succeeds
IsDate(part) == Len(part) = 1 /\ part[1].kind = "date"

DateTimeValue(part) == Seconds(part[1].val * SecondsPerDay + part[2].val)

Interval(s, e) == [ok |-> TRUE, start |-> s, end |-> e, error |-> None]
Raised(x) == [ok |-> FALSE, start |-> 0, end |-> 0, error |-> x]

\* a variant of EntireDay whose day ends at the next midnight
EntireDayEndsAtMidnight(part) ==
    IF IsDate(part)
    THEN Interval(Seconds(part[1].val * SecondsPerDay),
                  Seconds(part[1].val * SecondsPerDay + SecondsPerDay))
    ELSE Raised("ValueError")

\* the except branch: the first part as a whole day
EntireDay(part) ==
    IF IsDate(part)
    THEN Interval(Seconds(part[1].val * SecondsPerDay),
                  Seconds(part[1].val * SecondsPerDay + EndOfDaySeconds))
    ELSE Raised("ValueError")

\* the try branch: both strptime calls, date_string[1] indexed unguarded
validate_date_range_format(dates) ==
    LET date_string == Split(dates) IN
    IF ~IsDateTime(date_string[1]) THEN EntireDay(date_string[1])
    ELSE IF Len(date_string) < 2 THEN Raised("IndexError")
    ELSE IF ~IsDateTime(date_string[2]) THEN EntireDay(date_string[1])
    ELSE Interval(DateTimeValue(date_string[1]), DateTimeValue(date_string[2]))

\* parser inputs: the tokens records are made of (00:00:00 and 12:34:56)
ParseTimes == {0, 45296}
ParseTokens ==
    {DateTok(d) : d \in 0..MaxDay} \cup {TimeTok(s) : s \in ParseTimes}
        \cup {SepTok, JunkTok}

----------------------------------------------------------------------------
(* find_available_slot *)

\* itertools.combinations over the positions lo..n of the busy map, k at a
\* time, in its (lexicographic) order
RECURSIVE CombinationsFrom(_, _, _)
CombinationsFrom(lo, n, k) ==
    IF k <= 0 THEN << <<>> >>
    ELSE IF lo > n THEN <<>>
    ELSE [j \in 1..Len(CombinationsFrom(lo + 1, n, k - 1)) |->
              <<lo>> \o CombinationsFrom(lo + 1, n, k - 1)[j]]
         \o CombinationsFrom(lo + 1, n, k)

combinations(ranges, k) == CombinationsFrom(1, Len(ranges), k)

\* lines 97-103: the ranges of the calendars of one combination, flattened
RECURSIVE Flatten(_, _)
Flatten(ranges, combination) ==
    IF combination = <<>> THEN <<>>
    ELSE ranges[Head(combination)].ranges \o Flatten(ranges, Tail(combination))

\* sorted(date_ranges, key=lambda tup: tup[0]): stable
RECURSIVE InsertByStart(_, _)
InsertByStart(x, s) ==
    IF s = <<>> THEN <<x>>
    ELSE IF x[1] < Head(s)[1] THEN <<x>> \o s
    ELSE <<Head(s)>> \o InsertByStart(x, Tail(s))

RECURSIVE sorted(_)
sorted(s) ==
    IF s = <<>> THEN <<>>
    ELSE InsertByStart(s[Len(s)], sorted(SubSeq(s, 1, Len(s) - 1)))

\* date_ranges[idx] of Python: idx counts from 0, a negative idx from the end
At(s, idx) == IF idx < 0 THEN s[Len(s) + idx + 1] ELSE s[idx + 1]

\* max(date_ranges, key=itemgetter(1))[1]
RECURSIVE MaxEnd(_)
MaxEnd(s) ==
    IF Len(s) = 1 THEN s[1][2]
    ELSE IF s[1][2] >= MaxEnd(Tail(s)) THEN s[1][2] ELSE MaxEnd(Tail(s))

\* line 140: the slot before range i+1 is long enough
LongEnough(time_slot_value, duration) == time_slot_value > Minutes(duration)

\* lines 125-143: the while loop, entered with i, shift and the slot so far;
\* its value is available_time_slot when the loop ends
RECURSIVE Scan(_, _, _, _, _)
Scan(dr, i0, shift0, slot, duration) ==
    IF ~(i0 < Len(dr) - 2) THEN slot
    ELSE
      LET i == i0 + 1
          contained == At(dr, i + shift0)[1] < At(dr, i + 1)[1]
                       /\ At(dr, i + shift0)[2] > At(dr, i + 1)[2]
          intersect == At(dr, i + 1)[1] < At(dr, i + shift0)[2]
                       /\ At(dr, i + shift0)[2] < At(dr, i + 1)[2]
          shift == IF contained THEN shift0 - 1 ELSE 0
          time_slot_value == At(dr, i + 1)[1] - At(dr, i + shift)[2]
      IN  IF ~contained /\ intersect THEN Scan(dr, i, 0, slot, duration)
          ELSE IF LongEnough(time_slot_value, duration)
                  /\ At(dr, i + shift)[2] < slot
               THEN At(dr, i + shift)[2]
               ELSE Scan(dr, i, shift, slot, duration)

\* lines 121-143 for one sorted, non-empty pool
ScanPool(dr, duration) == Scan(dr, -1, 0, MaxEnd(dr), duration)

\* lines 112-116: now is suitable, the first range starts late enough
NowSuitable(dr, now, duration) ==
    dr[1][1] > now /\ dr[1][1] - now > Minutes(duration)

\* a variant of Rest: the loop ends with the combination just scanned
RestAfterReturn(c) == <<>>

\* line 95: the for loop goes on with the combinations that follow
Rest(c) == Tail(c)

\* lines 97-106: the sorted pool of one combination
Pool(ranges, combination) == sorted(Flatten(ranges, combination))

----------------------------------------------------------------------------
(* get_calendar_file_names, get_calendar_date_ranges *)

File(stem, ext) == [stem |-> stem, ext |-> ext]

\* file.endswith(".txt")
IsCalendar(file) == file.ext = "txt"

\* a variant of NamesError without the test of line 45
NamesErrorEmptyOnly(files, minimum) ==
    IF Len(files) = 0 THEN "Exception" ELSE None

\* lines 43-47: the exception raised for the calendars found, if any
NamesError(files, minimum) ==
    IF Len(files) = 0 THEN "Exception"
    ELSE IF Len(files) < minimum THEN "Exception"
    ELSE None

\* line 63: keep ranges that end in the future
EndsInFuture(end_date_time_obj, now) == end_date_time_obj > now

\* lines 59-64 for the lines of one file from line n on: the ranges kept, or
\* the exception of the first record that is refused
RECURSIVE LoadLines(_, _, _)
LoadLines(lines, n, now) ==
    IF n > Len(lines) THEN [error |-> None, ranges |-> <<>>]
    ELSE LET v == validate_date_range_format(lines[n])
             rest == LoadLines(lines, n + 1, now)
         IN  IF ~v.ok THEN [error |-> v.error, ranges |-> <<>>]
             ELSE IF rest.error # None THEN rest
             ELSE IF EndsInFuture(v.end, now)
                  THEN [error |-> None, ranges |-> <<(<<v.start, v.end>>)>> \o rest.ranges]
                  ELSE rest

\* lines 57-66 for the files from position n on
RECURSIVE LoadFiles(_, _, _, _)
LoadFiles(files, text, n, now) ==
    IF n > Len(files) THEN [error |-> None, map |-> <<>>]
    ELSE LET one == LoadLines(text[files[n]], 1, now)
             rest == LoadFiles(files, text, n + 1, now)
         IN  IF one.error # None THEN [error |-> one.error, map |-> <<>>]
             ELSE IF rest.error # None THEN rest
             ELSE [error |-> None,
                   map |-> <<[file |-> files[n], ranges |-> one.ranges]>> \o rest.map]

----------------------------------------------------------------------------
(* Inputs *)

SlotTime(s) == Seconds(s * SlotSeconds)

\* busy ranges with start < end on the slots 0..m
SlotRanges(m) ==
    {<<SlotTime(p[1]), SlotTime(p[2])>> :
        p \in {q \in (0..m) \X (0..m) : q[1] < q[2]}}

Lists(S, n) == UNION {[1..m -> S] : m \in 0..n}

CalendarA == File("a", "txt")
CalendarB == File("b", "txt")
Notes == File("notes", "md")

\* busy maps of two calendars holding at most n ranges of S
TwoCalendarMaps(S, n) ==
    UNION {{<<[file |-> CalendarA, ranges |-> x],
              [file |-> CalendarB, ranges |-> y]>> :
                x \in [1..p[1] -> S], y \in [1..p[2] -> S]} :
           p \in {q \in (0..n) \X (0..n) : q[1] + q[2] <= n}}

\* the record "<day 0> HH:MM:SS - <day 0> HH:MM:SS" of a range
RecordOf(r) ==
    <<DateTok(0), TimeTok(r[1] \div TicksPerSecond), SepTok,
      DateTok(0), TimeTok(r[2] \div TicksPerSecond)>>

\* the lines calendar files are made of: well-formed ranges, and one that
\* validate_date_range_format refuses
RunRecords(m) == {RecordOf(r) : r \in SlotRanges(m)} \cup {<<JunkTok>>}

RunListings == {<<>>, <<Notes>>, <<CalendarA>>, <<CalendarA, Notes, CalendarB>>}

\* file contents of at most n lines in all
RunContents(n) ==
    {c \in [{CalendarA, CalendarB} -> Lists(RunRecords(RunMaxSlot), n)] :
        Len(c[CalendarA]) + Len(c[CalendarB]) <= n}

\* busy maps handed to find_available_slot by a direct caller
DirectMaps(S, n) ==
    {<<>>}
    \cup {<<[file |-> CalendarA, ranges |-> x]>> : x \in Lists(S, n)}
    \cup TwoCalendarMaps(S, n)

\* clock readings a run may advance to
LaterTimes == {SlotTime(s) : s \in 1..RunMaxSlot}

NotStarted ==
    /\ load_date = NoDate
    /\ current_date = NoDate
    /\ comb = <<>>
    /\ calendar_combination = <<>>
    /\ date_ranges = <<>>
    /\ available_time_slot = NoDate
    /\ result = NoDate
    /\ line = 0
    /\ error = None

NotParsed == Raised(None)

NoRecord == record = <<>> /\ parsed = NotParsed

NoDirectory ==
    /\ listing = <<>>
    /\ contents = [f \in {CalendarA, CalendarB} |-> <<>>]
    /\ calendar_files = <<>>

----------------------------------------------------------------------------
(* The parser applied to one record *)

InitParse ==
    /\ called = "validate_date_range_format"
    /\ pc = "parse"
    /\ record \in Lists(ParseTokens, MaxTokens)
    /\ parsed = NotParsed
    /\ clock = 0
    /\ NoDirectory
    /\ calendar_date_ranges = <<>>
    /\ duration_in_minutes = 1
    /\ minimum_people = 1
    /\ NotStarted

Validate ==
    /\ pc = "parse"
    /\ parsed' = validate_date_range_format(record)
    /\ pc' = "parsed"
    /\ UNCHANGED <<clock, called, record, listing, contents, calendar_files,
                   calendar_date_ranges, duration_in_minutes, minimum_people,
                   load_date, current_date, comb, calendar_combination,
                   date_ranges,
                   available_time_slot, result, line, error>>

SpecParse == InitParse /\ [][Validate]_vars

----------------------------------------------------------------------------
(* find_available_slot, one step per combination *)

\* lines 91-94
Enter ==
    /\ pc = "call"
    /\ current_date' = TruncateToSecond(clock)
    /\ comb' = combinations(calendar_date_ranges, minimum_people)
    /\ pc' = "loop"
    /\ UNCHANGED <<clock, called, record, parsed, listing, contents,
                   calendar_files, calendar_date_ranges, duration_in_minutes, minimum_people,
                   load_date, calendar_combination, date_ranges,
                   available_time_slot, result, line, error>>

\* lines 95-143: the for loop takes the next combination and runs its body
Combination ==
    /\ pc = "loop"
    /\ comb # <<>>
    /\ calendar_combination' = Head(comb)
    /\ comb' = Rest(comb)
    /\ LET pool == Pool(calendar_date_ranges, Head(comb)) IN
       /\ date_ranges' = pool
       /\ IF pool = <<>>
          THEN /\ result' = clock
               /\ line' = 110
               /\ pc' = "done"
               /\ UNCHANGED available_time_slot
          ELSE IF NowSuitable(pool, current_date, duration_in_minutes)
          THEN /\ result' = clock
               /\ line' = 118
               /\ pc' = "done"
               /\ UNCHANGED available_time_slot
          ELSE /\ available_time_slot' = ScanPool(pool, duration_in_minutes)
               /\ UNCHANGED <<pc, result, line>>
    /\ UNCHANGED <<clock, called, record, parsed, listing, contents,
                   calendar_files, calendar_date_ranges, duration_in_minutes,
                   minimum_people, load_date, current_date, error>>

\* line 145, reached when the for loop has run out of combinations
Return ==
    /\ pc = "loop"
    /\ comb = <<>>
    /\ IF available_time_slot = NoDate
       THEN /\ error' = "UnboundLocalError"
            /\ pc' = "error"
            /\ UNCHANGED <<result, line>>
       ELSE /\ result' = available_time_slot + Seconds(1)
            /\ line' = 145
            /\ pc' = "done"
            /\ UNCHANGED error
    /\ UNCHANGED <<clock, called, record, parsed, listing, contents,
                   calendar_files, calendar_date_ranges, duration_in_minutes, minimum_people,
                   load_date, current_date, comb, calendar_combination,
                   date_ranges, available_time_slot>>

\* the search called at one instant on a busy map of future ranges
Init ==
    /\ called = "find_available_slot"
    /\ pc = "call"
    /\ clock \in 0..(TicksPerSecond - 1)
    /\ calendar_date_ranges \in TwoCalendarMaps(SlotRanges(MaxSlot), MaxPool)
    /\ duration_in_minutes \in 1..MaxDuration
    /\ minimum_people \in 1..2
    /\ NoRecord
    /\ NoDirectory
    /\ NotStarted

Next == Enter \/ Combination \/ Return

Spec == Init /\ [][Next]_vars

----------------------------------------------------------------------------
(* main: load, then search, while the clock runs; and direct calls *)

\* lines 38-49
GetCalendarFileNames ==
    /\ pc = "main"
    /\ LET files == SelectSeq(listing, IsCalendar) IN
       IF NamesError(files, minimum_people) # None
       THEN /\ error' = NamesError(files, minimum_people)
            /\ pc' = "error"
            /\ UNCHANGED calendar_files
       ELSE /\ calendar_files' = files
            /\ pc' = "files"
            /\ UNCHANGED error
    /\ UNCHANGED <<clock, called, record, parsed, listing, contents,
                   calendar_date_ranges, duration_in_minutes, minimum_people,
                   load_date, current_date, comb, calendar_combination,
                   date_ranges,
                   available_time_slot, result, line>>

\* lines 55-68
GetCalendarDateRanges ==
    /\ pc = "files"
    /\ load_date' = clock
    /\ LET loaded == LoadFiles(calendar_files, contents, 1, clock) IN
       IF loaded.error # None
       THEN /\ error' = loaded.error
            /\ pc' = "error"
            /\ UNCHANGED calendar_date_ranges
       ELSE /\ calendar_date_ranges' = loaded.map
            /\ pc' = "call"
            /\ UNCHANGED error
    /\ UNCHANGED <<clock, called, record, parsed, listing, contents, calendar_files,
                   duration_in_minutes, minimum_people, current_date, comb,
                   calendar_combination, date_ranges, available_time_slot, result, line>>

\* time passes between the load and the search, and during the search
Tick ==
    /\ pc \in {"call", "loop"}
    /\ \E t \in LaterTimes : t > clock /\ clock' = t
    /\ UNCHANGED <<called, pc, record, parsed, listing, contents, calendar_files,
                   calendar_date_ranges, duration_in_minutes, minimum_people,
                   load_date, current_date, comb, calendar_combination,
                   date_ranges,
                   available_time_slot, result, line, error>>

InitMain ==
    /\ called = "main"
    /\ pc = "main"
    /\ listing \in RunListings
    /\ contents \in RunContents(RunMaxLines)
    /\ \A f \in {CalendarA, CalendarB} :
          (\A n \in 1..Len(listing) : listing[n] # f) => contents[f] = <<>>
    /\ calendar_files = <<>>
    /\ calendar_date_ranges = <<>>

InitDirect ==
    /\ called = "find_available_slot"
    /\ pc = "call"
    /\ NoDirectory
    /\ calendar_date_ranges \in DirectMaps(SlotRanges(RunMaxSlot), RunMaxLines)

InitRun ==
    /\ clock \in {0, 1}
    /\ duration_in_minutes \in 1..RunMaxDuration
    /\ minimum_people \in 1..3
    /\ NoRecord
    /\ NotStarted
    /\ (InitMain \/ InitDirect)

NextRun ==
    \/ GetCalendarFileNames
    \/ GetCalendarDateRanges
    \/ Enter
    \/ Combination
    \/ Return
    \/ Tick

SpecRun == InitRun /\ [][NextRun]_vars

----------------------------------------------------------------------------
(* Notions the properties are stated with *)

Calendars == 1..Len(calendar_date_ranges)

RangesOf(c) ==
    {calendar_date_ranges[c].ranges[j] : j \in 1..Len(calendar_date_ranges[c].ranges)}

AllRanges == UNION {RangesOf(c) : c \in Calendars}

\* the busy range [start, end) meets the window of the duration d that begins at t
Intersects(r, t, d) == r[1] < t + Minutes(d) /\ t < r[2]

\* at least minimum_people calendars have no busy range that meets the window
\* of the required duration beginning at t
FreeAt(t) ==
    Cardinality({c \in Calendars :
                    \A r \in RangesOf(c) : ~Intersects(r, t, duration_in_minutes)})
        >= minimum_people

\* the inputs the contract is stated for, now being the search's current_date
ValidInput ==
    /\ duration_in_minutes > 0
    /\ minimum_people >= 1
    /\ minimum_people <= Len(calendar_date_ranges)
    /\ \A r \in AllRanges : r[1] < r[2] /\ r[2] > current_date

\* a combination has just been scanned (no return at line 110 or 118)
Scanned == pc = "loop" /\ date_ranges # <<>>

\* what line 145 returns if the combination scanned last is the last one
ScannedResult == available_time_slot + Seconds(1)

\* section 4.2 step 3e of the specification: walking the sorted pool with the
\* range in effect (prev), the first pair that does not overlap
RECURSIVE FirstGap(_, _, _)
FirstGap(dr, prev, j) ==
    IF j > Len(dr) THEN [found |-> FALSE, end |-> 0, gap |-> 0]
    ELSE IF dr[j][1] >= dr[prev][1] /\ dr[j][2] <= dr[prev][2]
         THEN FirstGap(dr, prev, j + 1)
    ELSE IF dr[j][1] < dr[prev][2] /\ dr[j][2] > dr[prev][2]
         THEN FirstGap(dr, j, j + 1)
    ELSE [found |-> TRUE, end |-> dr[prev][2], gap |-> dr[j][1] - dr[prev][2]]

\* the pool leaves a window of the duration free between its ranges
InteriorGap(dr, d) ==
    \E j \in 1..Len(dr) :
        /\ dr[j][2] < MaxEnd(dr)
        /\ \A m \in 1..Len(dr) : ~Intersects(dr[m], dr[j][2], d)

\* a pool that makes the loop body return now
ReturnsNow(c) ==
    LET pool == Pool(calendar_date_ranges, c) IN
    pool = <<>> \/ NowSuitable(pool, current_date, duration_in_minutes)

AllCombinations == combinations(calendar_date_ranges, minimum_people)

\* record shapes of the two accepted grammars
TwoPart(rec) ==
    /\ Len(rec) = 5
    /\ rec[1].kind = "date" /\ rec[2].kind = "time" /\ rec[3].kind = "sep"
    /\ rec[4].kind = "date" /\ rec[5].kind = "time"

OnePart(rec) == Len(rec) = 1 /\ rec[1].kind = "date"

----------------------------------------------------------------------------
(* Properties *)

\* C1: on valid input (ranges with start < end and end > now, duration > 0,
\* 1 <= minimum_people <= number of calendars) the returned timestamp starts
\* a free window: at least minimum_people calendars have no busy range that
\* meets the window of the required duration beginning at the result.
C1_ResultStartsFreeWindow ==
    (pc = "done" /\ ValidInput) => FreeAt(result)

\* C2: on valid input the returned timestamp is the earliest free one: no
\* timestamp t >= now earlier than the result starts a free window.  Free
\* windows begin at now or at the end of a busy range, so these are the t
\* tried; a t less than one second before the result is let pass (the code
\* reports one second past a range end, and "now" with its sub-second part).
C2_ResultIsEarliest ==
    (pc = "done" /\ ValidInput) =>
        /\ result >= current_date
        /\ \A t \in {current_date} \cup {r[2] : r \in AllRanges} :
              (t >= current_date /\ t + Seconds(1) < result) => ~FreeAt(t)

\* C3: every record that matches neither grammar is refused with ValueError.
C3_OtherRecordsRaiseValueError ==
    (pc = "parsed" /\ ~TwoPart(record) /\ ~OnePart(record)) =>
        (~parsed.ok /\ parsed.error = "ValueError")

\* C4: when the first pair of the sorted pool that does not overlap leaves a
\* gap of at least the duration after the range in effect (equality
\* included), the combination's result is the end of the range in effect and
\* not the fallback.  The second after that end is let pass as well.
C4_FirstGapIsReported ==
    (Scanned /\ ValidInput) =>
        LET g == FirstGap(date_ranges, 1, 2) IN
        (g.found /\ g.gap >= Minutes(duration_in_minutes)) =>
            ScannedResult \in {g.end, g.end + Seconds(1)}

\* C5: when the pool of a scanned combination leaves no window of the
\* duration free between its ranges, the combination's result is one second
\* after the latest end in the pool.
C5_FallbackPastLatestEnd ==
    (Scanned /\ ValidInput /\ ~InteriorGap(date_ranges, duration_in_minutes)) =>
        ScannedResult = MaxEnd(date_ranges) + Seconds(1)

\* C6: a two-part record "S - E" yields (S, E) unchanged, also when E
\* precedes S; a one-part record "D" yields (D 00:00:00, D 23:59:59).
C6_AcceptedRecordsParseExactly ==
    pc = "parsed" =>
        /\ TwoPart(record) =>
              parsed = Interval(
                  Seconds(record[1].val * SecondsPerDay + record[2].val),
                  Seconds(record[4].val * SecondsPerDay + record[5].val))
        /\ OnePart(record) =>
              parsed = Interval(
                  Seconds(record[1].val * SecondsPerDay),
                  Seconds(record[1].val * SecondsPerDay + EndOfDaySeconds))

C6_Witness ==
    /\ pc = "parsed" /\ TwoPart(record)
    /\ parsed.ok /\ parsed.end < parsed.start

\* C7: with no calendar, or fewer calendars than minimum_people, a run never
\* returns a timestamp: main stops in get_calendar_file_names with its
\* exception before the search is entered, and find_available_slot called
\* directly runs out of combinations at once and ends in an exception.
C7_NoCombinationNoResult ==
    /\ (called = "main"
        /\ Len(SelectSeq(listing, IsCalendar)) < minimum_people) =>
            /\ pc \in {"main", "error"}
            /\ pc = "error" => error = "Exception"
            /\ current_date = NoDate /\ load_date = NoDate /\ result = NoDate
    /\ (called = "find_available_slot"
        /\ Len(calendar_date_ranges) < minimum_people) =>
            /\ pc \in {"call", "loop", "error"}
            /\ pc = "loop" => comb = <<>>
            /\ pc = "error" => error = "UnboundLocalError"
            /\ result = NoDate

C7_Witness ==
    /\ called = "find_available_slot"
    /\ Len(calendar_date_ranges) >= 1
    /\ Len(calendar_date_ranges) < minimum_people
    /\ pc = "error" /\ error = "UnboundLocalError"

C9_NowIsEntrySnapshot ==
    (pc = "done" /\ line \in {110, 118}) =>
        TruncateToSecond(result) = current_date

\* C10: in a run of main, every range of the busy map the search works on
\* ends strictly after the search's reference now, and the search returns no
\* timestamp earlier than its reference now.
C10_LoadedRangesEndAfterNow ==
    (called = "main" /\ pc \in {"loop", "done"}) =>
        /\ \A r \in AllRanges : r[2] > current_date
        /\ pc = "done" => result >= current_date

====
